---- MODULE Spec2Model ----
(***************************************************************************)
(* clcache.py: a compiler cache.  Every invocation of the script is one    *)
(* operating-system process; the processes share the cache directory       *)
(* (entry directories holding "object" and "output.txt"), stats.txt and    *)
(* config.txt.  A process is modelled at the granularity of its file       *)
(* system calls, so that other processes can run between any two of them.  *)
(***************************************************************************)
EXTENDS Integers, Sequences, FiniteSets, TLC

\* ---------------------------------------------------------------- bounds
NumProcs == 2
NumKeys == 2
MaxInvocations == 3
MaxBudget == 4

Procs == 1..NumProcs
Keys == 1..NumKeys
NoKey == 0
MaximumSizes == 0..MaxBudget

\* The object file compiled for key k is k copy chunks long.
ObjectSize(k) == k

VARIABLES
    disk,            \* per key: the entry directory and its two files
    statsFile,       \* contents of stats.txt
    cfgMax,          \* MaximumCacheSize in config.txt
    invocations,     \* number of invocations started so far
    prev,            \* summary of the invocation that finished last
    pc,              \* per process: position in the script
    cachekey,        \* per process: cachekey (NoKey: not cacheable)
    returnCode,      \* per process: exit code of the real compiler
    preprocessor,    \* per process: how the /EP run of computeKey went
    statsAtStart,    \* per process: the statistics as loaded from stats.txt
    argv,            \* per command line: sys.argv, a list of character strings
    analysis,        \* what analyzeCommandLine(argv[1]) gave
    compiler,        \* per command line: mtime and size of the compiler binary
    preprocessedSourceCode,  \* per command line: output of the /EP run
    digest,          \* per command line: what computeKey fed to sha1
    stats,           \* per process: CacheStatistics._stats._dict
    fdLive,          \* per process: the open file is still linked on disk
    chunk,           \* per process: next chunk copyfile writes
    maximumSize,     \* per process: MaximumCacheSize as the run finds it
    currentSize,     \* per process: clean's running total
    objectsByATime,  \* per process: clean's sorted list of (atime, key)
    sweepPos,        \* per process: entries clean has removed
    cleanState,      \* per process: how far clean got
    result,          \* per process: inappropriate / hit / miss
    error,           \* per process: the call that raised, or "none"
    vanished,        \* per process: the entry was gone when the call raised
    deliveredObj,    \* per process: what the hit path copied to outputFile
    deliveredOut,    \* per process: what the hit path wrote to stdout
    exitCode,        \* per process: exit status
    pred             \* per process: prev as it was when the process started

vars == <<disk, statsFile, cfgMax, invocations, prev, pc, cachekey,
          returnCode, preprocessor, statsAtStart, argv, analysis, compiler,
          preprocessedSourceCode, digest, stats, fdLive, chunk,
          maximumSize, currentSize,
          objectsByATime,
          sweepPos, cleanState, result, error, vanished, deliveredObj,
          deliveredOut, exitCode, pred>>

procVars == <<cachekey, returnCode, maximumSize, preprocessor, statsAtStart>>
cleanVars == <<currentSize, objectsByATime, sweepPos, cleanState>>
hitVars == <<deliveredObj, deliveredOut>>
sharedVars == <<statsFile, cfgMax, invocations, prev, pred>>
cmdVars == <<argv, analysis, compiler, preprocessedSourceCode, digest>>

\* ------------------------------------------------------------ file system
Absent ==
    [dir |-> FALSE, object |-> FALSE, chunks |-> {}, output |-> "absent",
     atime |-> 0]

Max(S) == IF S = {} THEN 0 ELSE CHOOSE m \in S : \A x \in S : x <= m

\* A time stamp later than every access time on disk.
Now(d) == 1 + Max({d[k].atime : k \in Keys})

\* os.path.exists(cachedObjectName(key))
hasEntry(d, k) == d[k].object

\* os.path.getsize of the cached object: a file extends to its last chunk.
getsize(d, k) == Max(d[k].chunks)

ObjectComplete(d, k) == d[k].object /\ d[k].chunks = 1..ObjectSize(k)

\* ------------------------------------------------------------- statistics
ZeroStats ==
    [InappropriateInvocations |-> 0, CacheEntries |-> 0, CacheSize |-> 0,
     CacheHits |-> 0, CacheMisses |-> 0]

registerInappropriateInvocation(s) ==
    [s EXCEPT !.InappropriateInvocations = @ + 1]

registerCacheHit(s) == [s EXCEPT !.CacheHits = @ + 1]

registerCacheMiss(s) == [s EXCEPT !.CacheMisses = @ + 1]

\* a registration that counts the entry and forgets its size
registerCacheEntryWithoutSize(s, size) == [s EXCEPT !.CacheEntries = @ + 1]

registerCacheEntry(s, size) ==
    [s EXCEPT !.CacheEntries = @ + 1, !.CacheSize = @ + size]

setCacheSize(s, size) == [s EXCEPT !.CacheSize = size]

\* ------------------------------------------------------------------ clean
\* clean returns at once when the recorded size is below the maximum.
CleanNotNeeded(size, maximum) == size < maximum

\* the break test with <= in place of <: the loop would leave one entry early.
SweepBreaksAtMaximum(size, maximum) == size <= maximum

\* the loop leaves as soon as the running total is below the maximum.
SweepBreaks(size, maximum) == size < maximum

\* sorted(objectInfos, key=atime, reverse=True) over the walked objects.
RECURSIVE SortedByATime(_, _)
SortedByATime(S, d) ==
    IF S = {} THEN <<>>
    ELSE LET m == CHOOSE k \in S : \A j \in S : d[j].atime <= d[k].atime
         IN  <<(<<d[m].atime, m>>)>> \o SortedByATime(S \ {m}, d)

\* os.walk: the entry directories that contain a file named "object".
WalkObjects(d) == {k \in Keys : d[k].object}

\* ------------------------------------------------------------------- Init
NoSummary == [key |-> NoKey, result |-> "none", rc |-> 0, error |-> "none"]

CacheInit ==
    /\ disk = [k \in Keys |-> Absent]
    /\ statsFile = ZeroStats
    /\ cfgMax \in MaximumSizes
    /\ invocations = 0
    /\ prev = NoSummary
    /\ pc = [p \in Procs |-> "idle"]
    /\ cachekey = [p \in Procs |-> NoKey]
    /\ returnCode = [p \in Procs |-> 0]
    /\ preprocessor = [p \in Procs |-> "ok"]
    /\ statsAtStart = [p \in Procs |-> ZeroStats]
    /\ stats = [p \in Procs |-> ZeroStats]
    /\ fdLive = [p \in Procs |-> FALSE]
    /\ chunk = [p \in Procs |-> 0]
    /\ maximumSize = [p \in Procs |-> 0]
    /\ currentSize = [p \in Procs |-> 0]
    /\ objectsByATime = [p \in Procs |-> <<>>]
    /\ sweepPos = [p \in Procs |-> 0]
    /\ cleanState = [p \in Procs |-> "none"]
    /\ result = [p \in Procs |-> "none"]
    /\ error = [p \in Procs |-> "none"]
    /\ vanished = [p \in Procs |-> FALSE]
    /\ deliveredObj = [p \in Procs |-> "none"]
    /\ deliveredOut = [p \in Procs |-> "none"]
    /\ exitCode = [p \in Procs |-> 0]
    /\ pred = [p \in Procs |-> NoSummary]

\* --------------------------------------------------- command line analysis
\* A string is the sequence of its characters, so that slices, prefixes and
\* concatenation are computed as Python computes them.
MaxArgs == 3

\* s[:n] and s[n:] of Python
Take(s, n) == IF Len(s) <= n THEN s ELSE SubSeq(s, 1, n)
Drop(s, n) == IF Len(s) <= n THEN <<>> ELSE SubSeq(s, n + 1, Len(s))

\* s.rfind of any of the characters in cs, counted from 1; 0 when not found
RFind(s, cs) == Max({i \in 1..Len(s) : s[i] \in cs})

\* None, and the truth value Python gives a string or None
None == <<"None">>
Truthy(x) == x # None /\ x # <<>>

Program == <<"c", "l">>
Link == <<"/", "l", "i", "n", "k">>
CompileOnly == <<"/", "c">>
FoSwitch == <<"/", "F", "o">>
ObjExtension == <<".", "o", "b", "j">>

\* os.getcwd() of the invocation
Cwd == <<"C", ":", "\\", "w">>

\* the arguments the analysed command lines are made of
Arguments ==
    { Link, CompileOnly,
      <<"/", "F", "o", "x", ".", "o">>,
      FoSwitch,
      <<"a", ".", "c">>,
      <<"d", "/", "b", ".", "c">>,
      <<"/", "O", "2">>,
      <<>> }

\* a basename that keeps the directories
basenameWholePath(path) == path

\* ntpath.basename: what follows the drive and the last separator
basename(path) ==
    LET rest == IF Take(Drop(path, 1), 1) = <<":">> THEN Drop(path, 2)
                ELSE path
    IN  Drop(rest, RFind(rest, {"/", "\\"}))

\* os.path.splitext(name)[0] for a name without separators: the part before
\* the last dot, unless only dots come before it
splitextRoot(name) ==
    LET dotIndex == RFind(name, {"."})
    IN  IF dotIndex > 0 /\ \E i \in 1..(dotIndex - 1) : name[i] # "."
        THEN Take(name, dotIndex - 1)
        ELSE name

\* ntpath.join(a, b) for b without a drive or a leading separator
join(a, b) ==
    IF a = <<>> THEN b
    ELSE IF a[Len(a)] \in {"/", "\\", ":"} THEN a \o b
    ELSE a \o <<"\\">> \o b

\* the three ways analyzeCommandLine ends
NotAnalysed ==
    [status |-> "none", appropriateForCaching |-> FALSE,
     sourceFile |-> None, outputFile |-> None]

IndexError == [NotAnalysed EXCEPT !.status = "IndexError"]

Returned(appropriate, src, out) ==
    [status |-> "returned", appropriateForCaching |-> appropriate,
     sourceFile |-> src, outputFile |-> out]

\* the default of outputFile, given when no /Fo value and a source were found
DefaultOutputFile(sourceFile) ==
    join(Cwd, splitextRoot(basename(sourceFile)) \o ObjExtension)

\* The loop of analyzeCommandLine from argument i on, and what follows it.
\* appropriateForCaching is the truth value of
\* 'foundCompileOnlySwitch and sourceFile'.
RECURSIVE AnalyzeFrom(_, _, _, _, _)
AnalyzeFrom(cmdline, i, foundCompileOnlySwitch, sourceFile, outputFile) ==
    IF i > Len(cmdline)
    THEN LET out == IF ~Truthy(outputFile) /\ Truthy(sourceFile)
                    THEN DefaultOutputFile(sourceFile)
                    ELSE outputFile
         IN  Returned(foundCompileOnlySwitch /\ Truthy(sourceFile),
                      sourceFile, out)
    ELSE LET arg == cmdline[i]
         IN  IF arg = Link
             THEN Returned(FALSE, None, None)
             ELSE IF arg = CompileOnly
             THEN AnalyzeFrom(cmdline, i + 1, TRUE, sourceFile, outputFile)
             ELSE IF Take(arg, 3) = FoSwitch
             THEN AnalyzeFrom(cmdline, i + 1, foundCompileOnlySwitch,
                              sourceFile, Drop(arg, 3))
             ELSE IF arg = <<>>
             THEN IndexError
             ELSE IF arg[1] # "/"
             THEN IF Truthy(sourceFile)
                  THEN Returned(FALSE, None, None)
                  ELSE AnalyzeFrom(cmdline, i + 1, foundCompileOnlySwitch,
                                   arg, outputFile)
             ELSE AnalyzeFrom(cmdline, i + 1, foundCompileOnlySwitch,
                              sourceFile, outputFile)

analyzeCommandLine(cmdline) == AnalyzeFrom(cmdline, 2, FALSE, None, None)


\* ------------------------------------------------------------ computeKey
MaxSwitches == 2
MaxStamp == 11

\* the two command lines whose keys are compared
CommandLines == {1, 2}

\* the switches added to a compile-only command line
Switches ==
    { <<"/", "D", "x">>,
      <<"/", "I", "i">>,
      <<"/", "E", "H", "s", "c">>,
      <<"/", "O", "2">> }

Source == <<"a", ".", "c">>
SourceCodes == {<<"x">>, <<"y">>}
Stamps == 1..MaxStamp

\* the list of isRelevantArgument without "/D"
PreprocessorArgsWithoutDefine ==
    << <<"/", "A", "I">>, <<"/", "C">>, <<"/", "E">>,
       <<"/", "P">>, <<"/", "F", "I">>, <<"/", "u">>,
       <<"/", "X">>, <<"/", "F", "U">>, <<"/", "E", "P">>,
       <<"/", "F", "x">>, <<"/", "U">>, <<"/", "I">> >>

\* the list of isRelevantArgument
PreprocessorArgs ==
    << <<"/", "A", "I">>, <<"/", "C">>, <<"/", "E">>,
       <<"/", "P">>, <<"/", "F", "I">>, <<"/", "u">>,
       <<"/", "X">>, <<"/", "F", "U">>, <<"/", "D">>,
       <<"/", "E", "P">>, <<"/", "F", "x">>, <<"/", "U">>,
       <<"/", "I">> >>

isRelevantArgument(arg) ==
    \A i \in 1..Len(PreprocessorArgs) :
        Take(arg, Len(PreprocessorArgs[i])) # PreprocessorArgs[i]

\* filter(isRelevantArgument, cmdline)
RECURSIVE normalizedCommandLine(_)
normalizedCommandLine(cmdline) ==
    IF cmdline = <<>> THEN <<>>
    ELSE IF isRelevantArgument(Head(cmdline))
    THEN <<Head(cmdline)>> \o normalizedCommandLine(Tail(cmdline))
    ELSE normalizedCommandLine(Tail(cmdline))

\* str(n) of a natural number: its decimal digits
Digits == <<"0", "1", "2", "3", "4", "5", "6", "7", "8", "9">>

RECURSIVE str(_)
str(n) ==
    IF n < 10 THEN <<Digits[n + 1]>>
    ELSE str(n \div 10) \o <<Digits[(n % 10) + 1]>>

\* ' '.join(list)
RECURSIVE JoinWithSpace(_)
JoinWithSpace(list) ==
    IF list = <<>> THEN <<>>
    ELSE IF Len(list) = 1 THEN list[1]
    ELSE list[1] \o <<" ">> \o JoinWithSpace(Tail(list))

\* What computeKey feeds to sha1, update after update; the key is the hex
\* digest of this string, so equal strings give equal keys.
DigestInput(binary, commandLine, preprocessed) ==
    str(binary.mtime) \o str(binary.size)
        \o JoinWithSpace(normalizedCommandLine(Tail(commandLine)))
        \o preprocessed

\* the command line variables while the cache model runs
CommandInit ==
    /\ argv = [i \in CommandLines |-> <<Program>>]
    /\ analysis = NotAnalysed
    /\ compiler = [i \in CommandLines |-> [mtime |-> 1, size |-> 1]]
    /\ preprocessedSourceCode = [i \in CommandLines |-> <<>>]
    /\ digest = [i \in CommandLines |-> None]

Init == CacheInit /\ CommandInit

\* ---------------------------------------------------------------- actions
\* An uncaught exception ends the script with a traceback and status 1.
Raise(p, what, gone) ==
    /\ pc' = [pc EXCEPT ![p] = "exit"]
    /\ error' = [error EXCEPT ![p] = what]
    /\ vanished' = [vanished EXCEPT ![p] = gone]
    /\ exitCode' = [exitCode EXCEPT ![p] = 1]

NoRaise == UNCHANGED <<error, vanished>>

\* How the preprocessing subprocess of computeKey can end: it wrote the
\* preprocessed source and exited 0, it exited non-zero, or it did not start.
PreprocessorOutcomes == {"ok", "nonzero", "nostart"}

\* The script starts: the command line is analysed, stats.txt is loaded, and
\* an invocation that is not appropriate for caching runs the real compiler.
\* Otherwise computeKey runs the preprocessor, which ends as pp says: Popen
\* raises when it cannot start; its exit status is never looked at, and a key
\* is computed from whatever it wrote.
Invoke(p, pp) ==
    /\ pc[p] = "idle"
    /\ invocations < MaxInvocations
    /\ invocations' = invocations + 1
    /\ \E cacheable \in BOOLEAN, k \in Keys, rc \in {0, 1} :
         /\ returnCode' = [returnCode EXCEPT ![p] = rc]
         /\ cacheable \/ pp = "ok"
         /\ IF cacheable
            THEN /\ stats' = [stats EXCEPT ![p] = statsFile]
                 /\ result' = [result EXCEPT ![p] = "none"]
                 /\ IF pp = "nostart"
                    THEN /\ cachekey' = [cachekey EXCEPT ![p] = NoKey]
                         /\ Raise(p, "computeKey", FALSE)
                    ELSE /\ cachekey' = [cachekey EXCEPT ![p] = k]
                         /\ exitCode' = [exitCode EXCEPT ![p] = 0]
                         /\ pc' = [pc EXCEPT ![p] = "hasEntry"]
                         /\ error' = [error EXCEPT ![p] = "none"]
                         /\ vanished' = [vanished EXCEPT ![p] = FALSE]
            ELSE /\ cachekey' = [cachekey EXCEPT ![p] = NoKey]
                 /\ stats' = [stats EXCEPT
                        ![p] = registerInappropriateInvocation(statsFile)]
                 /\ result' = [result EXCEPT ![p] = "inappropriate"]
                 /\ exitCode' = [exitCode EXCEPT ![p] = rc]
                 /\ pc' = [pc EXCEPT ![p] = "exit"]
                 /\ error' = [error EXCEPT ![p] = "none"]
                 /\ vanished' = [vanished EXCEPT ![p] = FALSE]
    /\ preprocessor' = [preprocessor EXCEPT ![p] = pp]
    /\ statsAtStart' = [statsAtStart EXCEPT ![p] = statsFile]
    /\ deliveredObj' = [deliveredObj EXCEPT ![p] = "none"]
    /\ deliveredOut' = [deliveredOut EXCEPT ![p] = "none"]
    /\ pred' = [pred EXCEPT ![p] = prev]
    /\ maximumSize' = [maximumSize EXCEPT ![p] = cfgMax]
    /\ UNCHANGED <<disk, statsFile, cfgMax, prev, fdLive, chunk, cleanVars,
                   cmdVars>>

\* An invocation of a parallel build; its preprocessing run works.
Start(p) == Invoke(p, "ok")

\* a test that lets every compiler result be stored
CompilerRan(rc) == rc \in {0, 1}

\* the real compiler's exit code allows the result to be stored
CompilerSucceeded(rc) == rc = 0

\* cache.hasEntry(cachekey); on a miss the real compiler runs, and when it
\* failed its output is written to stdout and the script exits with its code.
HasEntry(p) ==
    /\ pc[p] = "hasEntry"
    /\ IF hasEntry(disk, cachekey[p])
       THEN /\ stats' = [stats EXCEPT ![p] = registerCacheHit(@)]
            /\ result' = [result EXCEPT ![p] = "hit"]
            /\ pc' = [pc EXCEPT ![p] = "copyObject"]
            /\ UNCHANGED exitCode
       ELSE /\ stats' = [stats EXCEPT ![p] = registerCacheMiss(@)]
            /\ result' = [result EXCEPT ![p] = "miss"]
            /\ exitCode' = [exitCode EXCEPT ![p] = returnCode[p]]
            /\ pc' = [pc EXCEPT
                   ![p] = IF CompilerSucceeded(returnCode[p])
                          THEN "checkDir" ELSE "exit"]
    /\ deliveredOut' = [deliveredOut EXCEPT
           ![p] = IF ~hasEntry(disk, cachekey[p])
                     /\ ~CompilerSucceeded(returnCode[p])
                  THEN "compiler" ELSE @]
    /\ NoRaise
    /\ UNCHANGED <<disk, sharedVars, procVars, cmdVars,
                   fdLive, chunk, cleanVars,
                   deliveredObj>>

\* copyfile(cache.cachedObjectName(cachekey), outputFile)
CopyCachedObject(p) ==
    /\ pc[p] = "copyObject"
    /\ LET k == cachekey[p] IN
       IF ~disk[k].object
       THEN /\ Raise(p, "copyfile", TRUE)
            /\ UNCHANGED <<disk, deliveredObj>>
       ELSE /\ deliveredObj' = [deliveredObj EXCEPT
                   ![p] = IF ObjectComplete(disk, k) THEN "complete"
                          ELSE "partial"]
            /\ disk' = [disk EXCEPT ![k].atime = Now(disk)]
            /\ pc' = [pc EXCEPT ![p] = "readOutput"]
            /\ NoRaise
            /\ UNCHANGED exitCode
    /\ UNCHANGED <<sharedVars, procVars, cmdVars,
                   stats, fdLive, chunk, cleanVars,
                   result, deliveredOut>>

\* sys.stdout.write(cache.cachedCompilerOutput(cachekey)); sys.exit(0)
ReadCachedOutput(p) ==
    /\ pc[p] = "readOutput"
    /\ LET k == cachekey[p] IN
       IF disk[k].output = "absent"
       THEN /\ Raise(p, "cachedCompilerOutput", ~disk[k].dir)
            /\ UNCHANGED deliveredOut
       ELSE /\ deliveredOut' = [deliveredOut EXCEPT ![p] = disk[k].output]
            /\ exitCode' = [exitCode EXCEPT ![p] = 0]
            /\ pc' = [pc EXCEPT ![p] = "exit"]
            /\ NoRaise
    /\ UNCHANGED <<disk, sharedVars, procVars, cmdVars, stats, fdLive, chunk,
                   cleanVars, result, deliveredObj>>

\* setEntry: if not os.path.exists(self.__cacheEntryDir(key))
SetEntryCheckDir(p) ==
    /\ pc[p] = "checkDir"
    /\ pc' = [pc EXCEPT
           ![p] = IF disk[cachekey[p]].dir THEN "openObject" ELSE "makedirs"]
    /\ NoRaise
    /\ UNCHANGED <<disk, sharedVars, procVars, cmdVars, stats, fdLive, chunk,
                   cleanVars, result, hitVars, exitCode>>

\* setEntry: os.makedirs(self.__cacheEntryDir(key))
SetEntryMakedirs(p) ==
    /\ pc[p] = "makedirs"
    /\ LET k == cachekey[p] IN
       IF disk[k].dir
       THEN /\ Raise(p, "makedirs", FALSE)
            /\ UNCHANGED disk
       ELSE /\ disk' = [disk EXCEPT ![k].dir = TRUE]
            /\ pc' = [pc EXCEPT ![p] = "openObject"]
            /\ NoRaise
            /\ UNCHANGED exitCode
    /\ UNCHANGED <<sharedVars, procVars, cmdVars,
                   stats, fdLive, chunk, cleanVars,
                   result, hitVars>>

\* setEntry: copyfile opens the cached object for writing
SetEntryOpenObject(p) ==
    /\ pc[p] = "openObject"
    /\ LET k == cachekey[p] IN
       IF ~disk[k].dir
       THEN /\ Raise(p, "setEntryObject", TRUE)
            /\ UNCHANGED <<disk, fdLive, chunk>>
       ELSE /\ disk' = [disk EXCEPT ![k].object = TRUE, ![k].chunks = {},
                                    ![k].atime = Now(disk)]
            /\ fdLive' = [fdLive EXCEPT ![p] = TRUE]
            /\ chunk' = [chunk EXCEPT ![p] = 1]
            /\ pc' = [pc EXCEPT ![p] = "writeObject"]
            /\ NoRaise
            /\ UNCHANGED exitCode
    /\ UNCHANGED <<sharedVars, procVars, cmdVars,
                   stats, cleanVars, result, hitVars>>

\* setEntry: copyfile writes the next chunk; after the last one it closes
SetEntryWriteObject(p) ==
    /\ pc[p] = "writeObject"
    /\ LET k == cachekey[p]
           last == chunk[p] = ObjectSize(k)
       IN  /\ disk' = IF fdLive[p]
                      THEN [disk EXCEPT ![k].chunks = @ \cup {chunk[p]}]
                      ELSE disk
           /\ chunk' = [chunk EXCEPT ![p] = IF last THEN 0 ELSE @ + 1]
           /\ fdLive' = [fdLive EXCEPT ![p] = IF last THEN FALSE ELSE @]
           /\ pc' = [pc EXCEPT
                  ![p] = IF last THEN "openOutput" ELSE "writeObject"]
    /\ NoRaise
    /\ UNCHANGED <<sharedVars, procVars, cmdVars,
                   stats, cleanVars, result, hitVars,
                   exitCode>>

\* setEntry: open(self.__cachedCompilerOutputName(key), 'w')
SetEntryOpenOutput(p) ==
    /\ pc[p] = "openOutput"
    /\ LET k == cachekey[p] IN
       IF ~disk[k].dir
       THEN /\ Raise(p, "setEntryOutput", TRUE)
            /\ UNCHANGED <<disk, fdLive>>
       ELSE /\ disk' = [disk EXCEPT ![k].output = "empty"]
            /\ fdLive' = [fdLive EXCEPT ![p] = TRUE]
            /\ pc' = [pc EXCEPT ![p] = "writeOutput"]
            /\ NoRaise
            /\ UNCHANGED exitCode
    /\ UNCHANGED <<sharedVars, procVars, cmdVars,
                   stats, chunk, cleanVars, result,
                   hitVars>>

\* setEntry: .write(compilerOutput), and the file is closed
SetEntryWriteOutput(p) ==
    /\ pc[p] = "writeOutput"
    /\ disk' = IF fdLive[p]
               THEN [disk EXCEPT ![cachekey[p]].output = "full"]
               ELSE disk
    /\ fdLive' = [fdLive EXCEPT ![p] = FALSE]
    /\ pc' = [pc EXCEPT ![p] = "register"]
    /\ NoRaise
    /\ UNCHANGED <<sharedVars, procVars, cmdVars,
                   stats, chunk, cleanVars, result,
                   hitVars, exitCode>>

\* rmtree(cacheDir): the entry directory goes with both files; a file that
\* another process still has open is unlinked under it.
rmtree(d, k) == [d EXCEPT ![k] = Absent]

Unlinked(k) ==
    [q \in Procs |-> IF cachekey[q] = k THEN FALSE ELSE fdLive[q]]

\* stats.registerCacheEntry(os.path.getsize(outputFile)), then
\* cache.clean(stats, cfg.maximumCacheSize()) up to the sorted object list.
\* When clean has returned the compiler's output is written to stdout.
RegisterAndClean(p) ==
    /\ pc[p] = "register"
    /\ LET registered == registerCacheEntry(stats[p], ObjectSize(cachekey[p]))
           size == registered.CacheSize
           infos == SortedByATime(WalkObjects(disk), disk)
       IN  IF CleanNotNeeded(size, maximumSize[p])
           THEN /\ stats' = [stats EXCEPT ![p] = registered]
                /\ cleanState' = [cleanState EXCEPT ![p] = "noop"]
                /\ pc' = [pc EXCEPT ![p] = "exit"]
                /\ UNCHANGED <<currentSize, objectsByATime, sweepPos>>
           ELSE /\ currentSize' = [currentSize EXCEPT ![p] = size]
                /\ objectsByATime' = [objectsByATime EXCEPT ![p] = infos]
                /\ sweepPos' = [sweepPos EXCEPT ![p] = 0]
                /\ IF infos = <<>>
                   THEN /\ stats' = [stats EXCEPT
                               ![p] = setCacheSize(registered, size)]
                        /\ cleanState' = [cleanState EXCEPT ![p] = "done"]
                        /\ pc' = [pc EXCEPT ![p] = "exit"]
                   ELSE /\ stats' = [stats EXCEPT ![p] = registered]
                        /\ cleanState' = [cleanState EXCEPT
                               ![p] = "sweeping"]
                        /\ pc' = [pc EXCEPT ![p] = "sweep"]
    /\ deliveredOut' = [deliveredOut EXCEPT
           ![p] = IF pc'[p] = "exit" THEN "compiler" ELSE @]
    /\ NoRaise
    /\ UNCHANGED <<disk, sharedVars, procVars, cmdVars, fdLive, chunk, result,
                   deliveredObj, exitCode>>

\* One iteration of clean's loop: getsize, rmtree, the running total and the
\* break test; stats.setCacheSize when the loop is left, and then the
\* compiler's output is written to stdout.
Sweep(p) ==
    /\ pc[p] = "sweep"
    /\ LET k == objectsByATime[p][sweepPos[p] + 1][2]
           objectSize == getsize(disk, k)
           size == currentSize[p] - objectSize
           ends == \/ SweepBreaks(size, maximumSize[p])
                   \/ sweepPos[p] + 1 = Len(objectsByATime[p])
       IN  IF ~disk[k].object
           THEN /\ Raise(p, "getsize", TRUE)
                /\ cleanState' = [cleanState EXCEPT ![p] = "aborted"]
                /\ UNCHANGED <<disk, fdLive, stats, currentSize, sweepPos,
                               deliveredOut>>
           ELSE /\ disk' = rmtree(disk, k)
                /\ fdLive' = Unlinked(k)
                /\ currentSize' = [currentSize EXCEPT ![p] = size]
                /\ sweepPos' = [sweepPos EXCEPT ![p] = @ + 1]
                /\ IF ends
                   THEN /\ stats' = [stats EXCEPT
                               ![p] = setCacheSize(@, size)]
                        /\ cleanState' = [cleanState EXCEPT ![p] = "done"]
                        /\ pc' = [pc EXCEPT ![p] = "exit"]
                        /\ deliveredOut' = [deliveredOut EXCEPT
                               ![p] = "compiler"]
                   ELSE UNCHANGED <<stats, cleanState, pc, deliveredOut>>
                /\ NoRaise
                /\ UNCHANGED exitCode
    /\ UNCHANGED <<sharedVars, procVars, cmdVars, chunk, objectsByATime, result,
                   deliveredObj>>

\* The process ends: PersistentJSONDict.__del__ writes the dirty statistics.
\* What the process held in memory goes with it; its key, compiler result,
\* maximum, outcome and error stay on record until the slot is used again.
Exit(p) ==
    /\ pc[p] = "exit"
    /\ statsFile' = stats[p]
    /\ prev' = [key |-> cachekey[p], result |-> result[p],
                rc |-> returnCode[p], error |-> error[p]]
    /\ pc' = [pc EXCEPT ![p] = "idle"]
    /\ fdLive' = [fdLive EXCEPT ![p] = FALSE]
    /\ chunk' = [chunk EXCEPT ![p] = 0]
    /\ currentSize' = [currentSize EXCEPT ![p] = 0]
    /\ objectsByATime' = [objectsByATime EXCEPT ![p] = <<>>]
    /\ sweepPos' = [sweepPos EXCEPT ![p] = 0]
    /\ cleanState' = [cleanState EXCEPT ![p] = "none"]
    /\ stats' = [stats EXCEPT ![p] = ZeroStats]
    /\ statsAtStart' = [statsAtStart EXCEPT ![p] = ZeroStats]
    /\ pred' = [pred EXCEPT ![p] = NoSummary]
    /\ vanished' = [vanished EXCEPT ![p] = FALSE]
    /\ deliveredObj' = [deliveredObj EXCEPT ![p] = "none"]
    /\ deliveredOut' = [deliveredOut EXCEPT ![p] = "none"]
    /\ exitCode' = [exitCode EXCEPT ![p] = 0]
    /\ UNCHANGED <<disk, cfgMax, invocations, cachekey, returnCode,
                   maximumSize, preprocessor, result, error, cmdVars>>

NoneRunning == \A q \in Procs : pc[q] = "idle"

\* clcache.py -M <size>: a run of its own that rewrites config.txt.  It is
\* given between builds: clean reads the maximum once, when it is called.
SetMaximumCacheSize ==
    /\ NoneRunning
    /\ \E size \in MaximumSizes :
         /\ size # cfgMax
         /\ cfgMax' = size
    /\ prev' = [NoSummary EXCEPT !.result = "maximum"]
    /\ UNCHANGED <<disk, statsFile, invocations, pred, pc, procVars,
                   cmdVars,
                   stats, fdLive, chunk, cleanVars, result, error, vanished,
                   hitVars, exitCode>>

\* Every step of a running process.
Step(p) ==
    \/ HasEntry(p)
    \/ CopyCachedObject(p)
    \/ ReadCachedOutput(p)
    \/ SetEntryCheckDir(p)
    \/ SetEntryMakedirs(p)
    \/ SetEntryOpenObject(p)
    \/ SetEntryWriteObject(p)
    \/ SetEntryOpenOutput(p)
    \/ SetEntryWriteOutput(p)
    \/ RegisterAndClean(p)
    \/ Sweep(p)
    \/ Exit(p)

\* Processes of a parallel build: any number of them run at once.
Next == SetMaximumCacheSize \/ \E p \in Procs : Start(p) \/ Step(p)

Spec == Init /\ [][Next]_vars

\* Invocations one after the other: a process starts when none is running
\* (which process it is makes no difference then: it is the first).
\* Here the preprocessing run of computeKey may fail as well.
SeqStart(p) ==
    /\ NoneRunning
    /\ p = 1
    /\ \E pp \in PreprocessorOutcomes : Invoke(p, pp)

SeqNext == SetMaximumCacheSize \/ \E p \in Procs : SeqStart(p) \/ Step(p)

SeqSpec == Init /\ [][SeqNext]_vars

\* ------------------------------------------- analyzeCommandLine on its own
\* No invocation runs: the cache stays as constructed.
cacheVars == <<disk, statsFile, cfgMax, invocations, prev, pc, procVars,
               stats, fdLive, chunk, cleanVars, result, error, vanished,
               hitVars, exitCode, pred>>

\* one more argument on the command line
AppendArgument(a) ==
    /\ analysis.status = "none"
    /\ Len(argv[1]) < 1 + MaxArgs
    /\ argv' = [argv EXCEPT ![1] = Append(@, a)]
    /\ UNCHANGED <<cacheVars, analysis, compiler, preprocessedSourceCode,
                   digest>>

\* appropriateForCaching, sourceFile, outputFile = analyzeCommandLine(sys.argv)
AnalyzeCommandLine ==
    /\ analysis.status = "none"
    /\ analysis' = analyzeCommandLine(argv[1])
    /\ UNCHANGED <<cacheVars, argv, compiler, preprocessedSourceCode, digest>>

ClassifyInit == CacheInit /\ cfgMax = 0 /\ CommandInit

ClassifyNext ==
    \/ \E a \in Arguments : AppendArgument(a)
    \/ AnalyzeCommandLine

ClassifySpec == ClassifyInit /\ [][ClassifyNext]_vars

\* --------------------------------------------------- computeKey on its own
\* Two compile-only command lines for one source file; each has its own
\* compiler binary and its own preprocessed source.
KeyInit ==
    /\ CacheInit /\ cfgMax = 0
    /\ argv = [i \in CommandLines |-> <<Program, CompileOnly, Source>>]
    /\ analysis = NotAnalysed
    /\ compiler \in [CommandLines -> [mtime : {1}, size : {1, 2}]]
    /\ preprocessedSourceCode \in [CommandLines -> SourceCodes]
    /\ digest = [i \in CommandLines |-> None]

\* one more switch on command line i
AddSwitch(i, a) ==
    /\ digest[i] = None
    /\ Len(argv[i]) < 3 + MaxSwitches
    /\ argv' = [argv EXCEPT ![i] = Append(@, a)]
    /\ UNCHANGED <<cacheVars, analysis, compiler, preprocessedSourceCode,
                   digest>>

\* cachekey = cache.computeKey(compiler, sys.argv), reached when the command
\* line is appropriate for caching
ComputeKey(i) ==
    /\ digest[i] = None
    /\ analyzeCommandLine(argv[i]).appropriateForCaching
    /\ digest' = [digest EXCEPT
           ![i] = DigestInput(compiler[i], argv[i],
                              preprocessedSourceCode[i])]
    /\ UNCHANGED <<cacheVars, argv, analysis, compiler,
                   preprocessedSourceCode>>

KeyNext ==
    \E i \in CommandLines :
        \/ \E a \in Switches : AddSwitch(i, a)
        \/ ComputeKey(i)

KeySpec == KeyInit /\ [][KeyNext]_vars

\* ------------------------------------- the compiler binary's fingerprint
\* One command line and one preprocessed source, two compiler binaries.
FingerprintInit ==
    /\ CacheInit /\ cfgMax = 0
    /\ argv = [i \in CommandLines |-> <<Program, CompileOnly, Source>>]
    /\ analysis = NotAnalysed
    /\ compiler = [i \in CommandLines |-> [mtime |-> 1, size |-> 1]]
    /\ preprocessedSourceCode = [i \in CommandLines |-> <<"x">>]
    /\ digest = [i \in CommandLines |-> None]

\* compiler binary i is written again: os.path.getmtime gives a later time
Touch(i) ==
    /\ digest[i] = None
    /\ compiler[i].mtime + 1 \in Stamps
    /\ compiler' = [compiler EXCEPT ![i].mtime = @ + 1]
    /\ UNCHANGED <<cacheVars, argv, analysis, preprocessedSourceCode, digest>>

\* compiler binary i grows: os.path.getsize gives one more
Grow(i) ==
    /\ digest[i] = None
    /\ compiler[i].size + 1 \in Stamps
    /\ compiler' = [compiler EXCEPT ![i].size = @ + 1]
    /\ UNCHANGED <<cacheVars, argv, analysis, preprocessedSourceCode, digest>>

FingerprintNext ==
    \E i \in CommandLines : Touch(i) \/ Grow(i) \/ ComputeKey(i)

FingerprintSpec == FingerprintInit /\ [][FingerprintNext]_vars

\* ----------------------------------------------------------------- typing
TypeOK ==
    /\ \A k \in Keys : disk[k].chunks \subseteq 1..ObjectSize(k)
    /\ \A p \in Procs : pc[p] \in
         {"idle", "hasEntry", "copyObject", "readOutput", "checkDir",
          "makedirs", "openObject", "writeObject", "openOutput",
          "writeOutput", "register", "sweep", "exit"}
    /\ invocations \in 0..MaxInvocations
    /\ \A p \in Procs : preprocessor[p] \in PreprocessorOutcomes

\* ----------------------------------------------------------------- claims
\* C1: in every reachable state an entry directory that exists holds its
\* complete object blob; no reader can find the directory without it.
C1_DirectoryHasObject ==
    \A k \in Keys : disk[k].dir => ObjectComplete(disk, k)

\* C2: an invocation on the hit path that runs beside a setEntry of the same
\* key delivers the fully written object and the fully written output; it
\* never delivers a partial blob and never fails on a missing output.txt
\* while the entry directory is there.
C2_HitDeliversPublished ==
    \A p \in Procs :
        result[p] = "hit" =>
            /\ deliveredObj[p] # "partial"
            /\ deliveredOut[p] # "empty"
            /\ ~(error[p] = "cachedCompilerOutput" /\ ~vanished[p])

\* C3: two processes that miss on one key and run setEntry at the same time
\* both get through it without an error, and when both are finished the entry
\* holds one complete object blob and one complete output blob.
C3_ConcurrentSetEntry ==
    /\ \A p \in Procs : error[p] # "makedirs"
    /\ \A p, q \in Procs :
           ( /\ p # q
             /\ NoneRunning
             /\ result[p] = "miss" /\ result[q] = "miss"
             /\ returnCode[p] = 0 /\ returnCode[q] = 0
             /\ error[p] = "none" /\ error[q] = "none"
             /\ cachekey[p] = cachekey[q]
             /\ disk[cachekey[p]].dir )
           => /\ ObjectComplete(disk, cachekey[p])
              /\ disk[cachekey[p]].output = "full"

\* C4: clean removes entries in ascending order of access time: every entry
\* the sweep listed and has not removed was accessed later than every entry
\* it has removed.
C4_OldestRemovedFirst ==
    \A p \in Procs :
        \A i \in 1..sweepPos[p] :
            \A j \in (sweepPos[p] + 1)..Len(objectsByATime[p]) :
                objectsByATime[p][i][1] < objectsByATime[p][j][1]

\* Sum of the object sizes of the listed entries i..j.
RECURSIVE SizeOfRemoved(_, _, _)
SizeOfRemoved(infos, i, j) ==
    IF i > j THEN 0
    ELSE ObjectSize(infos[i][2]) + SizeOfRemoved(infos, i + 1, j)

\* C5: clean removes no entry it need not remove: before each removal the
\* running total was at least the maximum (so nothing is removed when the
\* size is below the maximum, and putting the last removed entry back makes
\* the total reach the maximum again), and when entries remain after clean
\* has returned the recorded size is below the maximum.
C5_MinimalSweep ==
    \A p \in Procs :
        /\ \A i \in 1..sweepPos[p] :
               currentSize[p]
                   + SizeOfRemoved(objectsByATime[p], i, sweepPos[p])
                 >= maximumSize[p]
        /\ ( /\ pc[p] = "exit"
             /\ cleanState[p] \in {"noop", "done"}
             /\ WalkObjects(disk) # {} )
           => stats[p].CacheSize < maximumSize[p]

\* C5 witness: a sweep that listed two entries has removed one of them and
\* stopped, the other remains, and clean has returned.
C5_Witness ==
    \E p \in Procs :
        /\ pc[p] = "exit"
        /\ cleanState[p] = "done"
        /\ Len(objectsByATime[p]) = 2
        /\ sweepPos[p] = 1
        /\ WalkObjects(disk) # {}

\* C6: a sweep never aborts because an entry it listed was removed by another
\* process before the sweep got to it.
C6_SweepToleratesMissingEntry ==
    \A p \in Procs : cleanState[p] # "aborted"

\* C7: a reader whose entry is removed by an eviction after hasEntry returned
\* true does not end with an error caused by the vanished entry.
C7_VanishedEntryIsMiss ==
    \A p \in Procs :
        ~( /\ result[p] = "hit"
           /\ vanished[p]
           /\ error[p] \in {"copyfile", "cachedCompilerOutput"} )

\* C8: when all invocations have finished, stats.txt counts every one of
\* them: hits + misses + inappropriate invocations equals their number.
C8_NoLostStatistics ==
    NoneRunning =>
        statsFile.CacheHits + statsFile.CacheMisses
            + statsFile.InappropriateInvocations = invocations

\* C9: with a maximum size above the object's size, a successful miss leaves
\* the entry in the cache, and the identical invocation that follows it at
\* once is a hit: one more hit, no new entry, the stored output and object
\* delivered, exit code 0.
C9_SecondRunHits ==
    \A p \in Procs :
        ( /\ pc[p] = "exit"
          /\ cachekey[p] # NoKey
          /\ maximumSize[p] > ObjectSize(cachekey[p]) )
        => /\ ( result[p] = "miss" /\ returnCode[p] = 0 /\ error[p] = "none" )
              => hasEntry(disk, cachekey[p])
           /\ ( /\ pred[p].key = cachekey[p]
                /\ pred[p].result = "miss"
                /\ pred[p].rc = 0 )
              => /\ result[p] = "hit"
                 /\ error[p] = "none"
                 /\ exitCode[p] = 0
                 /\ deliveredObj[p] = "complete"
                 /\ deliveredOut[p] = "full"
                 /\ stats[p].CacheHits = statsFile.CacheHits + 1
                 /\ stats[p].CacheEntries = statsFile.CacheEntries

\* C10: after two invocations that both missed on one key and both went on
\* to store it, the cache looks as after a single store: the entry is on
\* disk, CacheEntries is 1 and CacheSize is the object's size.
C10_StoreTwiceCountsOnce ==
    \A p, q \in Procs :
        ( /\ p # q
          /\ NoneRunning
          /\ invocations = 2
          /\ result[p] = "miss" /\ result[q] = "miss"
          /\ returnCode[p] = 0 /\ returnCode[q] = 0
          /\ cachekey[p] = cachekey[q]
          /\ maximumSize[p] > ObjectSize(cachekey[p])
          /\ maximumSize[q] > ObjectSize(cachekey[q]) )
        => /\ ObjectComplete(disk, cachekey[p])
           /\ disk[cachekey[p]].output = "full"
           /\ statsFile.CacheEntries = 1
           /\ statsFile.CacheSize = ObjectSize(cachekey[p])

\* setEntry ended with an exception of the file system
SetEntryFailed(p) ==
    error[p] \in {"makedirs", "setEntryObject", "setEntryOutput"}

\* C11: an invocation that missed, whose compiler succeeded and whose
\* setEntry then failed with a file system error, still ends with the
\* compiler's exit code and has written the compiler's output, and its
\* CacheEntries and CacheSize are the ones it loaded.
C11_StoreFailureStillDelivers ==
    \A p \in Procs :
        ( /\ pc[p] = "exit"
          /\ result[p] = "miss"
          /\ CompilerSucceeded(returnCode[p])
          /\ SetEntryFailed(p) )
        => /\ exitCode[p] = returnCode[p]
           /\ deliveredOut[p] = "compiler"
           /\ stats[p].CacheEntries = statsAtStart[p].CacheEntries
           /\ stats[p].CacheSize = statsAtStart[p].CacheSize

\* C12: an invocation whose preprocessing run did not start or exited
\* non-zero has no key, looks nothing up, registers neither a hit nor a
\* miss, stores nothing, and ends without an error with the exit code of the
\* real compiler.
C12_PreprocessFailureFallsBack ==
    \A p \in Procs :
        ( pc[p] # "idle" /\ preprocessor[p] # "ok" )
        => /\ cachekey[p] = NoKey
           /\ pc[p] = "exit"
           /\ result[p] = "none"
           /\ stats[p].CacheHits = statsAtStart[p].CacheHits
           /\ stats[p].CacheMisses = statsAtStart[p].CacheMisses
           /\ stats[p].CacheEntries = statsAtStart[p].CacheEntries
           /\ error[p] = "none"
           /\ exitCode[p] = returnCode[p]

\* C13: for every argument list analyzeCommandLine returns, and it reports
\* cacheable exactly when no argument after the program name is /link, some
\* argument is /c, and exactly one argument does not start with '/'.
C13_CacheableIff ==
    LET args == Tail(argv[1])
        nonFlags == {i \in 1..Len(args) :
                        args[i] = <<>> \/ args[i][1] # "/"}
    IN  analysis.status # "none"
        => /\ analysis.status = "returned"
           /\ analysis.appropriateForCaching
                <=> /\ \A i \in 1..Len(args) : args[i] # Link
                    /\ \E i \in 1..Len(args) : args[i] = CompileOnly
                    /\ Cardinality(nonFlags) = 1

C15_ExcludedFlagsDoNotMatter ==
    LET excluded == {<<"/", "D", "x">>, <<"/", "I", "i">>}
        kept(i) == SelectSeq(Tail(argv[i]), LAMBDA a : a \notin excluded)
    IN  ( /\ digest[1] # None /\ digest[2] # None
          /\ kept(1) = kept(2)
          /\ compiler[1] = compiler[2]
          /\ preprocessedSourceCode[1] = preprocessedSourceCode[2] )
        => digest[1] = digest[2]

\* 'cl /c a.c /Dx /O2' and 'cl /c a.c /O2 /Ii' hashed to the same input
C15_Witness ==
    /\ argv[1] = <<Program, CompileOnly, Source, <<"/", "D", "x">>,
                   <<"/", "O", "2">>>>
    /\ argv[2] = <<Program, CompileOnly, Source, <<"/", "O", "2">>,
                   <<"/", "I", "i">>>>
    /\ compiler[1] = compiler[2]
    /\ preprocessedSourceCode[1] = preprocessedSourceCode[2]
    /\ digest[1] # None
    /\ digest[1] = digest[2]

\* C16: with the command line and the preprocessed source the same, two
\* compiler binaries that differ in modification time or size never get the
\* same digest input.
C16_FingerprintSeparatesKeys ==
    ( /\ digest[1] # None /\ digest[2] # None
      /\ argv[1] = argv[2]
      /\ preprocessedSourceCode[1] = preprocessedSourceCode[2]
      /\ compiler[1] # compiler[2] )
    => digest[1] # digest[2]

\* C17: the normalized command line is the argument list after the program
\* name without the macro-define and include-path switches (/Dx, /Ii) and
\* nothing else, in the original order; two command lines that differ in
\* another argument, hashed with the same compiler binary fingerprint and
\* preprocessed source, get different digest inputs.
C17_OnlyPreprocessingSwitchesDropped ==
    LET excluded == {<<"/", "D", "x">>, <<"/", "I", "i">>}
        kept(i) == SelectSeq(Tail(argv[i]), LAMBDA a : a \notin excluded)
    IN  /\ \A i \in CommandLines :
               normalizedCommandLine(Tail(argv[i])) = kept(i)
        /\ ( /\ digest[1] # None /\ digest[2] # None
              /\ compiler[1] = compiler[2]
              /\ preprocessedSourceCode[1] = preprocessedSourceCode[2]
              /\ kept(1) # kept(2) )
           => digest[1] # digest[2]

\* C18: an invocation that missed and whose compiler exited non-zero is at
\* its end at once: no entry for its key, CacheEntries and CacheSize as
\* loaded, no clean, the compiler's output written and its exit code
\* returned.  Whoever is inside setEntry, registers an entry or cleans has a
\* compiler result of 0.
C18_FailedCompileNotCached ==
    /\ \A p \in Procs :
           ( pc[p] # "idle" /\ result[p] = "miss" /\ returnCode[p] # 0 )
           => /\ pc[p] = "exit"
              /\ ~disk[cachekey[p]].dir
              /\ stats[p].CacheEntries = statsAtStart[p].CacheEntries
              /\ stats[p].CacheSize = statsAtStart[p].CacheSize
              /\ cleanState[p] = "none"
              /\ error[p] = "none"
              /\ deliveredOut[p] = "compiler"
              /\ exitCode[p] = returnCode[p]
    /\ \A p \in Procs :
           pc[p] \in {"checkDir", "makedirs", "openObject", "writeObject",
                      "openOutput", "writeOutput", "register", "sweep"}
           => returnCode[p] = 0

\* a failed compile of key 2 while the entry of key 1 is in the cache
C18_Witness ==
    \E p \in Procs :
        /\ pc[p] = "exit"
        /\ result[p] = "miss"
        /\ returnCode[p] = 1
        /\ cachekey[p] = 2
        /\ exitCode[p] = 1
        /\ deliveredOut[p] = "compiler"
        /\ ObjectComplete(disk, 1)
        /\ stats[p].CacheEntries = 1

\* C19: between invocations that do not overlap, the CacheEntries counter in
\* stats.txt equals the number of entry directories in the cache.
C19_EntriesCounterMatchesDirectories ==
    NoneRunning =>
        statsFile.CacheEntries = Cardinality({k \in Keys : disk[k].dir})

\* the sizes of the object files in the cache, added up
RECURSIVE StoredSize(_, _)
StoredSize(d, S) ==
    IF S = {} THEN 0
    ELSE LET k == CHOOSE x \in S : TRUE
         IN  getsize(d, k) + StoredSize(d, S \ {k})

\* C20: between invocations that do not overlap, starting from an empty
\* cache, the CacheSize counter in stats.txt equals the sum of the sizes of
\* the stored objects; when clean has returned, the size it recorded is the
\* total size of the entries that remain.
C20_SizeCounterMatchesObjects ==
    /\ NoneRunning
         => statsFile.CacheSize = StoredSize(disk, WalkObjects(disk))
    /\ \A p \in Procs :
           ( pc[p] = "exit" /\ cleanState[p] = "done" )
           => stats[p].CacheSize = StoredSize(disk, WalkObjects(disk))

\* clean has removed key 2 and left key 1, and recorded key 1's size
C20_Witness ==
    \E p \in Procs :
        /\ pc[p] = "exit"
        /\ cleanState[p] = "done"
        /\ sweepPos[p] = 1
        /\ WalkObjects(disk) = {1}
        /\ stats[p].CacheSize = ObjectSize(1)

====
